---- MODULE Spec2Model ----
(***************************************************************************)
(* Model of the aios shim generated by create_minimal_aios.py: the State   *)
(* class (a tracker of a current state over a declared list of states,     *)
(* with a history log of the changes).                                     *)
(***************************************************************************)
EXTENDS Integers, Sequences, FiniteSets, TLC

(* ---------------------------------------------------------------------- *)
(* Bounds and input domains                                                *)
(* ---------------------------------------------------------------------- *)

\* longest states list handed to the constructor
MaxStates == 2

\* longest history the model lets change_state build
MaxHistory == 2

\* most Objects created in one run of the process
MaxCreated == 2

\* number of polls of one Athena query that are told apart
MaxPolls == 3

\* number of workflows the dashboard is asked to start
MaxWorkflows == 2

\* Python's None object; differs from every label
None == "<None>"

\* labels a caller declares as states; "" is Python's empty (falsy) string
StateLabels == {"idle", "working", ""}

\* labels a caller passes as default or as new_state: the declared ones and
\* one that is never declared
ArgLabels == StateLabels \cup {"nonexistent"}

\* values the name argument takes
Names == {"state"}

\* values time.time() returns
Times == {1, 2}

\* the lists of declared states a caller constructs a State with: every
\* list over StateLabels up to MaxStates long, the empty list and lists
\* with repeated labels included
StatesLists == UNION {[1..n -> StateLabels] : n \in 0..MaxStates}

(* ---------------------------------------------------------------------- *)
(* State                                                                   *)
(* ---------------------------------------------------------------------- *)

VARIABLES
    constructed,    \* whether State.__init__ has run
    states,         \* self.states
    name,           \* self.name
    current_state,  \* self.current_state
    history,        \* self.history
    init_default,   \* the default argument State.__init__ was called with
    last_call,      \* the last call made on the State: its method (op), its argument
                    \* (arg), the exception it raised or "none" (raised), and the
                    \* value it returned (ret)
    arg_states,     \* the contents of the list object the caller passed as states
    states_shared,  \* whether self.states is that very list object
    held,           \* the list get_history returned, as its caller holds it: got is
                    \* whether the caller holds one, items its elements; per element,
                    \* alias is the index of the history record that is the same dict
                    \* object (0 when none is) and rec the element's own value when
                    \* it aliases none
    allowed_transitions,
                    \* the transition graph: declared is whether one was declared,
                    \* pairs its (from, to) pairs
    objects,        \* the live Object instances, by memory address: name, id and
                    \* properties (the dict object the attribute refers to)
    dicts,          \* the live dict objects, by reference: key -> value
    issued,         \* the ids given to the Objects created so far, in creation order
    threads,        \* the threads calling change_state on the one State: per thread,
                    \* pc is the statement it is about to run ("idle" outside a
                    \* call), new_state the argument and old_state the local
    serialized,     \* whether the callers wrap every change_state in one lock
    athena,         \* the AthenaClient and its query: pc is the statement of
                    \* execute_query / wait_for_query about to run, execution the
                    \* state of the query execution at the service, status the local
                    \* of wait_for_query, polled the states polled so far, polls
                    \* their number (counted up to MaxPolls), outcome whether the
                    \* call returned or raised, results_read whether
                    \* get_query_results was called
    builder,        \* the AIOSBuilderAgent: pc is the step of run_full_build about to
                    \* run, result the value run_full_build returned ("none" before
                    \* it returns)
    dashboard,      \* the web dashboard: up is whether the module is loaded, started
                    \* the number of start_workflow requests served, pending the
                    \* number of execute_workflow background tasks not yet finished,
                    \* reported the status the last get_status returned
    obj_call        \* the last call made on an Object or on the caller's dict: its
                    \* method (op), the Object (target), the key argument (key), the
                    \* value or default argument (arg) and the value returned (ret)

\* the fields of the State and the record of the calls made on it
stateVars == <<constructed, states, name, current_state, history, init_default, last_call,
               arg_states, states_shared>>

\* the Objects and the dicts they and their callers hold
objVars == <<objects, dicts, issued, obj_call>>

\* the threads that share the State
threadVars == <<threads, serialized>>

\* the components beside the State, its caller and the Objects
otherVars == <<threadVars, athena, builder, dashboard>>

\* what each component leaves alone
notState == <<held, allowed_transitions, objVars, otherVars>>
notHeld == <<allowed_transitions, objVars, otherVars>>
notGraph == <<held, objVars, otherVars>>
notObject == <<stateVars, held, allowed_transitions, otherVars>>
notThreads == <<held, allowed_transitions, objVars, athena, builder, dashboard>>
notAthena == <<stateVars, held, allowed_transitions, objVars, threadVars, builder, dashboard>>
notBuilder == <<held, allowed_transitions, objVars, threadVars, athena, dashboard>>
notBuilderInit == <<held, allowed_transitions, threadVars, athena, dashboard>>
notDashboard == <<held, allowed_transitions, objVars, threadVars, athena, builder>>

vars == <<stateVars, held, allowed_transitions, objVars, otherVars>>

(* ---------------------------------------------------------------------- *)
(* Pure helpers                                                            *)
(* ---------------------------------------------------------------------- *)

\* the threads that call change_state on one State
Threads == {"t1", "t2"}

\* a thread outside change_state
IdleThread == [pc |-> "idle", new_state |-> None, old_state |-> None]

\* the states at which wait_for_query stops polling
TerminalStates == {"SUCCEEDED", "FAILED", "CANCELLED"}

\* the states of a query execution that are not final
RunningStates == {"QUEUED", "RUNNING"}

\* the states of the status of an AIOSBuilderAgent
BuilderStates == <<"idle", "analyzing", "building", "testing", "done", "error">>

\* the states of the aios_state of the dashboard
SystemStates == <<"idle", "running", "completed", "error">>

\* memory addresses an Object can be allocated at (what id() returns)
Addr == {"0x1", "0x2"}

\* the dict object a caller builds and passes as properties
CallerDict == "d_caller"

\* property keys and values callers use
Keys == {"type", "id"}
PropValues == {"research", "analysis"}

\* values the default argument of get_property takes
Defaults == {None, "analysis"}

\* values the name argument of Object takes
ObjNames == {None, "TestAgent"}

\* the empty dict
EmptyDict == [k \in {} |-> None]

\* d[key] = value on a dict
DictPut(d, key, value) == [k \in DOMAIN d \cup {key} |-> IF k = key THEN value ELSE d[k]]

\* d.get(key, default) on a dict
DictGet(d, key, default) == IF key \in DOMAIN d THEN d[key] ELSE default

\* Python truth value of a dict: the empty dict is false
DictTruthy(d) == DOMAIN d # {}

\* Python truth value of a label or None: None and '' are false
Truthy(v) == v # None /\ v # ""

\* `x in lst` on a Python list
InList(x, lst) == \E i \in DOMAIN lst : lst[i] = x

\* `default or states[0] if states else None`, which Python parses as
\* `(default or states[0]) if states else None`
InitialState(a_states, a_default) ==
    IF Len(a_states) > 0
        THEN IF Truthy(a_default) THEN a_default ELSE a_states[1]
        ELSE None

\* TransitionRecord as it would be had change_state read self.current_state
\* for 'from' after assigning it
TransitionRecord_FromAfterAssign(old_state, new_state, ts) ==
    [from |-> new_state, to |-> new_state, timestamp |-> ts]

\* the dict change_state appends to the history
TransitionRecord(old_state, new_state, ts) ==
    [from |-> old_state, to |-> new_state, timestamp |-> ts]

(* ---------------------------------------------------------------------- *)
(* Operations                                                              *)
(* ---------------------------------------------------------------------- *)

Init ==
    /\ constructed = FALSE
    /\ states = <<>>
    /\ name = None
    /\ current_state = None
    /\ history = <<>>
    /\ init_default = None
    /\ last_call = [op |-> "none", arg |-> None, raised |-> "none", ret |-> None]
    /\ arg_states = <<>>
    /\ states_shared = FALSE
    /\ held = [got |-> FALSE, items |-> <<>>]
    /\ allowed_transitions = [declared |-> FALSE, pairs |-> {}]
    /\ objects = [a \in {} |-> None]
    /\ dicts = [r \in {CallerDict} |-> EmptyDict]
    /\ issued = <<>>
    /\ obj_call = [op |-> "none", target |-> None, key |-> None, arg |-> None, ret |-> None]
    /\ threads = [t \in Threads |-> IdleThread]
    /\ serialized = FALSE
    /\ builder = [pc |-> "none", result |-> "none"]
    /\ dashboard = [up |-> FALSE, started |-> 0, pending |-> 0, reported |-> None]
    /\ athena = [pc |-> "idle", execution |-> None, status |-> None, polled |-> {},
                 polls |-> 0, outcome |-> "none", results_read |-> FALSE]

\* State.__init__ as it would be had it kept the caller's list object
\* (self.states = states)
State__init__KeepList(a_states, a_name, a_default) ==
    /\ ~constructed
    /\ constructed' = TRUE
    /\ states' = a_states
    /\ arg_states' = a_states
    /\ states_shared' = TRUE
    /\ name' = a_name
    /\ current_state' = InitialState(a_states, a_default)
    /\ history' = <<>>
    /\ init_default' = a_default
    /\ last_call' = [op |-> "__init__", arg |-> a_default, raised |-> "none", ret |-> None]

\* State.__init__(states, name, default)
State__init__(a_states, a_name, a_default) ==
    /\ ~constructed
    /\ constructed' = TRUE
    /\ states' = a_states
    /\ arg_states' = a_states
    /\ states_shared' = FALSE
    /\ name' = a_name
    /\ current_state' = InitialState(a_states, a_default)
    /\ history' = <<>>
    /\ init_default' = a_default
    /\ last_call' = [op |-> "__init__", arg |-> a_default, raised |-> "none", ret |-> None]

\* change_state as it would be had it assigned current_state before the
\* membership test
change_state_AssignFirst(new_state) ==
    /\ constructed
    /\ IF InList(new_state, states)
          THEN /\ Len(history) < MaxHistory
               /\ \E ts \in Times :
                     LET old_state == current_state IN
                     /\ current_state' = new_state
                     /\ history' = Append(history, TransitionRecord(old_state, new_state, ts))
               /\ last_call' = [op |-> "change_state", arg |-> new_state,
                                 raised |-> "none", ret |-> "True"]
          ELSE /\ last_call' = [op |-> "change_state", arg |-> new_state,
                                 raised |-> "ValueError", ret |-> None]
               /\ current_state' = new_state
               /\ UNCHANGED history
    /\ UNCHANGED <<constructed, states, name, init_default, arg_states, states_shared>>

\* change_state as it would be had it returned False for an undeclared
\* label instead of raising
change_state_ReturnFalse(new_state) ==
    /\ constructed
    /\ IF InList(new_state, states)
          THEN /\ Len(history) < MaxHistory
               /\ \E ts \in Times :
                     LET old_state == current_state IN
                     /\ current_state' = new_state
                     /\ history' = Append(history, TransitionRecord(old_state, new_state, ts))
               /\ last_call' = [op |-> "change_state", arg |-> new_state,
                                 raised |-> "none", ret |-> "True"]
          ELSE /\ last_call' = [op |-> "change_state", arg |-> new_state,
                                 raised |-> "none", ret |-> "False"]
               /\ UNCHANGED <<current_state, history>>
    /\ UNCHANGED <<constructed, states, name, init_default, arg_states, states_shared>>

\* change_state as it would be had it recorded nothing when the new state
\* is the current one
change_state_SkipSelf(new_state) ==
    /\ constructed
    /\ IF InList(new_state, states)
          THEN /\ Len(history) < MaxHistory
               /\ \E ts \in Times :
                     LET old_state == current_state IN
                     /\ current_state' = new_state
                     /\ history' = IF old_state = new_state
                                      THEN history
                                      ELSE Append(history, TransitionRecord(old_state, new_state, ts))
               /\ last_call' = [op |-> "change_state", arg |-> new_state,
                                 raised |-> "none", ret |-> "True"]
          ELSE /\ last_call' = [op |-> "change_state", arg |-> new_state,
                                 raised |-> "ValueError", ret |-> None]
               /\ UNCHANGED <<current_state, history>>
    /\ UNCHANGED <<constructed, states, name, init_default, arg_states, states_shared>>

\* change_state as it would be had it kept only the latest record
\* (self.history = [record])
change_state_KeepLatest(new_state) ==
    /\ constructed
    /\ IF InList(new_state, states)
          THEN /\ Len(history) < MaxHistory
               /\ \E ts \in Times :
                     LET old_state == current_state IN
                     /\ current_state' = new_state
                     /\ history' = <<TransitionRecord(old_state, new_state, ts)>>
               /\ last_call' = [op |-> "change_state", arg |-> new_state,
                                 raised |-> "none", ret |-> "True"]
          ELSE /\ last_call' = [op |-> "change_state", arg |-> new_state,
                                 raised |-> "ValueError", ret |-> None]
               /\ UNCHANGED <<current_state, history>>
    /\ UNCHANGED <<constructed, states, name, init_default, arg_states, states_shared>>

\* change_state as it would be had it locked the State once the last
\* declared state (conventionally the final one) is reached
change_state_LockFinal(new_state) ==
    /\ constructed
    /\ IF InList(new_state, states) /\ ~(history # <<>> /\ current_state = states[Len(states)])
          THEN /\ Len(history) < MaxHistory
               /\ \E ts \in Times :
                     LET old_state == current_state IN
                     /\ current_state' = new_state
                     /\ history' = Append(history, TransitionRecord(old_state, new_state, ts))
               /\ last_call' = [op |-> "change_state", arg |-> new_state,
                                 raised |-> "none", ret |-> "True"]
          ELSE /\ last_call' = [op |-> "change_state", arg |-> new_state,
                                 raised |-> "ValueError", ret |-> None]
               /\ UNCHANGED <<current_state, history>>
    /\ UNCHANGED <<constructed, states, name, init_default, arg_states, states_shared>>

\* change_state as it would be had it refused a new state equal to the
\* current one
change_state_RejectSelf(new_state) ==
    /\ constructed
    /\ IF InList(new_state, states) /\ new_state # current_state
          THEN /\ Len(history) < MaxHistory
               /\ \E ts \in Times :
                     LET old_state == current_state IN
                     /\ current_state' = new_state
                     /\ history' = Append(history, TransitionRecord(old_state, new_state, ts))
               /\ last_call' = [op |-> "change_state", arg |-> new_state,
                                 raised |-> "none", ret |-> "True"]
          ELSE /\ last_call' = [op |-> "change_state", arg |-> new_state,
                                 raised |-> "ValueError", ret |-> None]
               /\ UNCHANGED <<current_state, history>>
    /\ UNCHANGED <<constructed, states, name, init_default, arg_states, states_shared>>

\* State.change_state(new_state)
change_state(new_state) ==
    /\ constructed
    /\ IF InList(new_state, states)
          THEN /\ Len(history) < MaxHistory
               /\ \E ts \in Times :
                     LET old_state == current_state IN
                     /\ current_state' = new_state
                     /\ history' = Append(history, TransitionRecord(old_state, new_state, ts))
               /\ last_call' = [op |-> "change_state", arg |-> new_state,
                                 raised |-> "none", ret |-> "True"]
          ELSE /\ last_call' = [op |-> "change_state", arg |-> new_state,
                                 raised |-> "ValueError", ret |-> None]
               /\ UNCHANGED <<current_state, history>>
    /\ UNCHANGED <<constructed, states, name, init_default, arg_states, states_shared>>

\* get_history as it would be had it handed over the records and emptied
\* the history
get_history_Drain ==
    /\ constructed
    /\ last_call' = [op |-> "get_history", arg |-> None, raised |-> "none", ret |-> history]
    /\ history' = <<>>
    /\ UNCHANGED <<constructed, states, name, current_state, init_default,
                   arg_states, states_shared>>

\* State.get_history()
get_history ==
    /\ constructed
    /\ last_call' = [op |-> "get_history", arg |-> None, raised |-> "none", ret |-> history]
    /\ UNCHANGED <<constructed, states, name, current_state, history, init_default,
                 arg_states, states_shared>>

\* reset as it would be had it left the history alone
reset_KeepHistory ==
    /\ constructed
    /\ IF Len(states) > 0
          THEN /\ current_state' = states[1]
               /\ UNCHANGED history
          ELSE UNCHANGED <<current_state, history>>
    /\ last_call' = [op |-> "reset", arg |-> None, raised |-> "none", ret |-> None]
    /\ UNCHANGED <<constructed, states, name, init_default, arg_states, states_shared>>

\* State.reset()
reset ==
    /\ constructed
    /\ IF Len(states) > 0
          THEN /\ current_state' = states[1]
               /\ history' = <<>>
          ELSE UNCHANGED <<current_state, history>>
    /\ last_call' = [op |-> "reset", arg |-> None, raised |-> "none", ret |-> None]
    /\ UNCHANGED <<constructed, states, name, init_default, arg_states, states_shared>>

Construct == \E a_states \in StatesLists, a_name \in Names, a_default \in ArgLabels \cup {None} :
                State__init__(a_states, a_name, a_default)

ChangeState == \E new_state \in ArgLabels : change_state(new_state)

\* the State on its own: nothing but its methods acts
Next ==
    \/ Construct /\ UNCHANGED notState
    \/ ChangeState /\ UNCHANGED notState
    \/ get_history /\ UNCHANGED notState
    \/ reset /\ UNCHANGED notState

Spec == Init /\ [][Next]_vars

(* ---------------------------------------------------------------------- *)
(* The State and a caller that mutates the objects it shares with it      *)
(* ---------------------------------------------------------------------- *)

\* the label a caller writes into objects it holds
CallerLabel == "nonexistent"

\* the rec of an element that aliases a history record
NoRecord == [from |-> None, to |-> None, timestamp |-> 0]

\* a dict the caller builds itself
CallerRecord == [from |-> CallerLabel, to |-> CallerLabel, timestamp |-> 1]

\* list.copy(): a new list whose elements are the same dict objects
ShallowCopy(h) == [i \in 1..Len(h) |-> [alias |-> i, rec |-> NoRecord]]

\* the value of an element of the held list
HeldValue(e) == IF e.alias > 0 THEN history[e.alias] ELSE e.rec

\* the held list as values
HeldRecords == [j \in 1..Len(held.items) |-> HeldValue(held.items[j])]

\* State.get_history(), its return value kept by the caller
get_history_held ==
    /\ get_history
    /\ held' = [got |-> TRUE, items |-> ShallowCopy(history)]

\* State.reset(): history.clear() empties the State's list, so the dicts the
\* caller holds are no longer in it
reset_held ==
    /\ reset
    /\ held' = IF Len(states) > 0
                  THEN [held EXCEPT !.items =
                          [j \in 1..Len(held.items) |->
                              [alias |-> 0, rec |-> HeldValue(held.items[j])]]]
                  ELSE held

\* the caller appends a dict of its own to the list it holds
CallerAppend ==
    /\ held.got
    /\ Len(held.items) <= MaxHistory
    /\ held' = [held EXCEPT !.items = Append(@, [alias |-> 0, rec |-> CallerRecord])]
    /\ UNCHANGED stateVars

\* the caller pops the last element of the list it holds
CallerPop ==
    /\ held.got
    /\ Len(held.items) > 0
    /\ held' = [held EXCEPT !.items = SubSeq(@, 1, Len(@) - 1)]
    /\ UNCHANGED stateVars

\* the caller assigns the 'to' field of element j of the list it holds:
\* the assignment lands in the dict object, whoever else refers to it
CallerSetTo(j) ==
    /\ held.got
    /\ j \in DOMAIN held.items
    /\ LET e == held.items[j] IN
          IF e.alias > 0
             THEN /\ history' = [history EXCEPT ![e.alias].to = CallerLabel]
                  /\ UNCHANGED held
             ELSE /\ held' = [held EXCEPT !.items[j].rec.to = CallerLabel]
                  /\ UNCHANGED history
    /\ UNCHANGED <<constructed, states, name, current_state, init_default, last_call,
                   arg_states, states_shared>>

CallerSetField == \E j \in 1..(MaxHistory + 1) : CallerSetTo(j)

\* the caller appends to, or pops from, the list object it passed to the
\* constructor; self.states changes with it only if it is that object
CallerMutatesStatesArg ==
    /\ constructed
    /\ \/ /\ Len(arg_states) <= Len(states)
          /\ arg_states' = Append(arg_states, CallerLabel)
       \/ /\ Len(arg_states) > 0
          /\ arg_states' = SubSeq(arg_states, 1, Len(arg_states) - 1)
    /\ states' = IF states_shared THEN arg_states' ELSE states
    /\ UNCHANGED <<constructed, name, current_state, history, init_default, last_call,
                   states_shared, held>>

\* a mutation the caller makes on the list get_history returned
CallerMutatesHeld == CallerAppend \/ CallerPop \/ CallerSetField

\* the lists of states and the defaults this caller constructs its State with
CallerStatesLists == {<<"idle">>, <<"idle", "working">>}
CallerDefaults == {None, "working"}

ConstructByCaller ==
    \E a_states \in CallerStatesLists, a_name \in Names, a_default \in CallerDefaults :
        State__init__(a_states, a_name, a_default)

\* the State and a caller that mutates the list it constructed the State with
NextCaller ==
    \/ ConstructByCaller /\ UNCHANGED notState
    \/ ChangeState /\ UNCHANGED notState
    \/ get_history /\ UNCHANGED notState
    \/ reset /\ UNCHANGED notState
    \/ CallerMutatesStatesArg /\ UNCHANGED notHeld

SpecCaller == Init /\ [][NextCaller]_vars

\* the State and a caller that mutates the lists get_history returns to it
NextAlias ==
    \/ ConstructByCaller /\ UNCHANGED notState
    \/ ChangeState /\ UNCHANGED notState
    \/ get_history_held /\ UNCHANGED notHeld
    \/ reset_held /\ UNCHANGED notHeld
    \/ CallerAppend /\ UNCHANGED notHeld
    \/ CallerPop /\ UNCHANGED notHeld
    \/ CallerSetField /\ UNCHANGED notHeld

SpecAlias == Init /\ [][NextAlias]_vars

(* ---------------------------------------------------------------------- *)
(* One State shared by threads: change_state runs statement by statement,  *)
(* the statements of the threads interleaving                              *)
(* ---------------------------------------------------------------------- *)

\* the threads inside a change_state call
InCall == {u \in Threads : threads[u].pc # "idle"}

\* entering change_state as it would be with no lock taken around the call
change_state_enter_NoLock(t, new_state) ==
    /\ constructed
    /\ threads[t].pc = "idle"
    /\ Len(history) + Cardinality(InCall) < MaxHistory
    /\ IF InList(new_state, states)
          THEN /\ threads' = [threads EXCEPT ![t] = [pc |-> "read", new_state |-> new_state,
                                                      old_state |-> None]]
               /\ UNCHANGED last_call
          ELSE /\ last_call' = [op |-> "change_state", arg |-> new_state,
                                 raised |-> "ValueError", ret |-> None]
               /\ UNCHANGED threads
    /\ UNCHANGED <<constructed, states, name, current_state, history, init_default,
                   arg_states, states_shared, serialized>>

\* thread t calls change_state(new_state) and runs its membership test
\* (`if new_state in self.states`); when the callers serialize the calls
\* the thread first takes the lock, which is free only while no other
\* thread is inside a call
change_state_enter(t, new_state) ==
    /\ constructed
    /\ threads[t].pc = "idle"
    /\ serialized => InCall = {}
    /\ Len(history) + Cardinality(InCall) < MaxHistory
    /\ IF InList(new_state, states)
          THEN /\ threads' = [threads EXCEPT ![t] = [pc |-> "read", new_state |-> new_state,
                                                      old_state |-> None]]
               /\ UNCHANGED last_call
          ELSE /\ last_call' = [op |-> "change_state", arg |-> new_state,
                                 raised |-> "ValueError", ret |-> None]
               /\ UNCHANGED threads
    /\ UNCHANGED <<constructed, states, name, current_state, history, init_default,
                   arg_states, states_shared, serialized>>

\* old_state = self.current_state
change_state_read(t) ==
    /\ threads[t].pc = "read"
    /\ threads' = [threads EXCEPT ![t].pc = "write", ![t].old_state = current_state]
    /\ UNCHANGED <<stateVars, serialized>>

\* self.current_state = new_state
change_state_write(t) ==
    /\ threads[t].pc = "write"
    /\ current_state' = threads[t].new_state
    /\ threads' = [threads EXCEPT ![t].pc = "append"]
    /\ UNCHANGED <<constructed, states, name, history, init_default, last_call,
                   arg_states, states_shared, serialized>>

\* self.history.append({...}); return True (and the lock, if any, is
\* released)
change_state_append(t) ==
    /\ threads[t].pc = "append"
    /\ \E ts \in Times :
          history' = Append(history,
                            TransitionRecord(threads[t].old_state, threads[t].new_state, ts))
    /\ last_call' = [op |-> "change_state", arg |-> threads[t].new_state,
                     raised |-> "none", ret |-> "True"]
    /\ threads' = [threads EXCEPT ![t] = IdleThread]
    /\ UNCHANGED <<constructed, states, name, current_state, init_default,
                   arg_states, states_shared, serialized>>

\* the program constructs the State its threads share, and decides whether
\* they call it behind one lock
ConstructShared ==
    /\ ConstructByCaller
    /\ serialized' \in BOOLEAN
    /\ UNCHANGED threads

ThreadEnters == \E t \in Threads, new_state \in ArgLabels : change_state_enter(t, new_state)

ThreadReads == \E t \in Threads : change_state_read(t)

ThreadWrites == \E t \in Threads : change_state_write(t)

ThreadAppends == \E t \in Threads : change_state_append(t)

NextThreads ==
    \/ ConstructShared /\ UNCHANGED notThreads
    \/ ThreadEnters /\ UNCHANGED notThreads
    \/ ThreadReads /\ UNCHANGED notThreads
    \/ ThreadWrites /\ UNCHANGED notThreads
    \/ ThreadAppends /\ UNCHANGED notThreads

SpecThreads == Init /\ [][NextThreads]_vars

(* ---------------------------------------------------------------------- *)
(* The State with the methods its callers use that the generated package  *)
(* does not define: set_allowed_transitions, get_transition_stats and      *)
(* get_current_state_info, each as the specification describes it         *)
(* ---------------------------------------------------------------------- *)

\* the transition graphs a caller declares
GraphChoices ==
    { {<<"idle", "idle">>},
      {<<"idle", "working">>},
      {<<"idle", "working">>, <<"working", "idle">>},
      {<<"idle", "working">>, <<"working", "nonexistent">>} }

\* the labels a transition graph refers to
GraphLabels(pairs) == {p[1] : p \in pairs} \cup {p[2] : p \in pairs}

\* set_allowed_transitions(pairs): declares the transition graph; a pair
\* naming a label that is not declared is a configuration error
set_allowed_transitions(pairs) ==
    /\ constructed
    /\ ~allowed_transitions.declared
    /\ IF \A l \in GraphLabels(pairs) : InList(l, states)
          THEN /\ allowed_transitions' = [declared |-> TRUE, pairs |-> pairs]
               /\ last_call' = [op |-> "set_allowed_transitions", arg |-> None,
                                 raised |-> "none", ret |-> None]
          ELSE /\ last_call' = [op |-> "set_allowed_transitions", arg |-> None,
                                 raised |-> "ConfigurationError", ret |-> None]
               /\ UNCHANGED allowed_transitions
    /\ UNCHANGED <<constructed, states, name, current_state, history, init_default,
                   arg_states, states_shared>>

\* change_state_allowed as it would be had it tested the pair
\* (new_state, current_state) instead of (current_state, new_state)
change_state_allowed_Swapped(new_state) ==
    IF /\ InList(new_state, states)
       /\ allowed_transitions.declared
       /\ <<new_state, current_state>> \notin allowed_transitions.pairs
       THEN /\ constructed
            /\ last_call' = [op |-> "change_state", arg |-> new_state,
                              raised |-> "IllegalTransitionError", ret |-> None]
            /\ UNCHANGED <<constructed, states, name, current_state, history, init_default,
                           arg_states, states_shared>>
       ELSE change_state(new_state)

\* change_state(new_state) under a transition graph: an undeclared label is
\* refused as in change_state; a pair outside a declared graph raises
\* IllegalTransitionError and commits nothing; otherwise as change_state
change_state_allowed(new_state) ==
    IF /\ InList(new_state, states)
       /\ allowed_transitions.declared
       /\ <<current_state, new_state>> \notin allowed_transitions.pairs
       THEN /\ constructed
            /\ last_call' = [op |-> "change_state", arg |-> new_state,
                              raised |-> "IllegalTransitionError", ret |-> None]
            /\ UNCHANGED <<constructed, states, name, current_state, history, init_default,
                           arg_states, states_shared>>
       ELSE change_state(new_state)

RECURSIVE TransitionStats(_)
\* get_transition_stats: the count of each (from, to) pair, accumulated
\* over the history from its first record to its last
TransitionStats(h) ==
    IF h = <<>>
       THEN <<>>
       ELSE LET rest == TransitionStats(SubSeq(h, 1, Len(h) - 1))
                pair == <<h[Len(h)].from, h[Len(h)].to>>
            IN  [p \in DOMAIN rest \cup {pair} |->
                    IF p = pair
                       THEN (IF p \in DOMAIN rest THEN rest[p] ELSE 0) + 1
                       ELSE rest[p]]

\* get_transition_stats()
get_transition_stats ==
    /\ constructed
    /\ last_call' = [op |-> "get_transition_stats", arg |-> None, raised |-> "none",
                      ret |-> TransitionStats(history)]
    /\ UNCHANGED <<constructed, states, name, current_state, history, init_default,
                   arg_states, states_shared>>

\* get_current_state_info(): the current state, the time since the last
\* transition (None before the first) and the number of transitions
get_current_state_info ==
    /\ constructed
    /\ \E now \in Times :
          /\ history # <<>> => now >= history[Len(history)].timestamp
          /\ last_call' =
                [op |-> "get_current_state_info", arg |-> None, raised |-> "none",
                 ret |-> [current |-> current_state,
                          elapsedSinceLastTransition |->
                              IF history = <<>> THEN None
                              ELSE now - history[Len(history)].timestamp,
                          transitionCount |-> Len(history)]]
    /\ UNCHANGED <<constructed, states, name, current_state, history, init_default,
                   arg_states, states_shared>>

\* reading the current_state attribute
read_current_state ==
    /\ constructed
    /\ last_call' = [op |-> "current_state", arg |-> None, raised |-> "none",
                      ret |-> current_state]
    /\ UNCHANGED <<constructed, states, name, current_state, history, init_default,
                   arg_states, states_shared>>

SetAllowedTransitions == \E pairs \in GraphChoices : set_allowed_transitions(pairs)

ChangeStateAllowed == \E new_state \in ArgLabels : change_state_allowed(new_state)

NextFull ==
    \/ ConstructByCaller /\ UNCHANGED notState
    \/ SetAllowedTransitions /\ UNCHANGED notGraph
    \/ ChangeStateAllowed /\ UNCHANGED notState
    \/ get_history /\ UNCHANGED notState
    \/ get_transition_stats /\ UNCHANGED notState
    \/ get_current_state_info /\ UNCHANGED notState
    \/ read_current_state /\ UNCHANGED notState
    \/ reset /\ UNCHANGED notState

SpecFull == Init /\ [][NextFull]_vars

(* ---------------------------------------------------------------------- *)
(* Object                                                                  *)
(* ---------------------------------------------------------------------- *)

\* Object.__init__(name, properties), the new instance allocated at addr;
\* a_props is None or a reference to a dict of the caller. `properties or
\* {}` keeps the caller's dict object when it is non-empty and makes a new
\* dict otherwise; id(self) is the address of the instance
Object__init__(addr, a_name, a_props) ==
    /\ addr \notin DOMAIN objects
    /\ Len(issued) < MaxCreated
    /\ LET kept == a_props # None /\ DictTruthy(dicts[a_props])
           ref == IF kept THEN a_props ELSE addr
       IN  /\ objects' = [b \in DOMAIN objects \cup {addr} |->
                            IF b = addr
                               THEN [name |-> IF Truthy(a_name) THEN a_name ELSE "AIOS_Object",
                                     properties |-> ref,
                                     id |-> addr]
                               ELSE objects[b]]
           /\ dicts' = IF kept
                          THEN dicts
                          ELSE [r \in DOMAIN dicts \cup {addr} |->
                                   IF r = addr THEN EmptyDict ELSE dicts[r]]
    /\ issued' = Append(issued, addr)
    /\ obj_call' = [op |-> "__init__", target |-> addr, key |-> None, arg |-> None,
                     ret |-> None]

\* the owner of the Object at addr drops its reference: the instance and
\* the dict only it referred to are freed, and the address is free again
Drop(addr) ==
    /\ addr \in DOMAIN objects
    /\ objects' = [b \in DOMAIN objects \ {addr} |-> objects[b]]
    /\ dicts' = [r \in DOMAIN dicts \ {addr} |-> dicts[r]]
    /\ obj_call' = [op |-> "del", target |-> addr, key |-> None, arg |-> None, ret |-> None]
    /\ UNCHANGED issued

\* set_property as it would be had it set the attribute of that name
\* (setattr(self, key, value))
set_property_SetAttr(addr, key, value) ==
    /\ addr \in DOMAIN objects
    /\ IF key = "id"
          THEN /\ objects' = [objects EXCEPT ![addr].id = value]
               /\ UNCHANGED dicts
          ELSE /\ dicts' = [dicts EXCEPT ![objects[addr].properties] = DictPut(@, key, value)]
               /\ UNCHANGED objects
    /\ obj_call' = [op |-> "set_property", target |-> addr, key |-> key, arg |-> value,
                     ret |-> None]
    /\ UNCHANGED issued

\* set_property as it would be had it rebuilt the dict from the one entry
\* (self.properties = {key: value})
set_property_Replace(addr, key, value) ==
    /\ addr \in DOMAIN objects
    /\ dicts' = [dicts EXCEPT ![objects[addr].properties] = DictPut(EmptyDict, key, value)]
    /\ obj_call' = [op |-> "set_property", target |-> addr, key |-> key, arg |-> value,
                     ret |-> None]
    /\ UNCHANGED <<objects, issued>>

\* Object.set_property(key, value)
set_property(addr, key, value) ==
    /\ addr \in DOMAIN objects
    /\ dicts' = [dicts EXCEPT ![objects[addr].properties] = DictPut(@, key, value)]
    /\ obj_call' = [op |-> "set_property", target |-> addr, key |-> key, arg |-> value,
                     ret |-> None]
    /\ UNCHANGED <<objects, issued>>

\* get_property as it would be had it used self.properties.setdefault(key,
\* default)
get_property_SetDefault(addr, key, default) ==
    /\ addr \in DOMAIN objects
    /\ LET d == dicts[objects[addr].properties]
       IN  /\ dicts' = IF key \in DOMAIN d
                          THEN dicts
                          ELSE [dicts EXCEPT ![objects[addr].properties] =
                                                  DictPut(@, key, default)]
           /\ obj_call' = [op |-> "get_property", target |-> addr, key |-> key,
                            arg |-> default, ret |-> DictGet(d, key, default)]
    /\ UNCHANGED <<objects, issued>>

\* Object.get_property(key, default)
get_property(addr, key, default) ==
    /\ addr \in DOMAIN objects
    /\ obj_call' = [op |-> "get_property", target |-> addr, key |-> key, arg |-> default,
                     ret |-> DictGet(dicts[objects[addr].properties], key, default)]
    /\ UNCHANGED <<objects, dicts, issued>>

\* the caller stores an entry in the dict it built
CallerDictSet(key, value) ==
    /\ dicts' = [dicts EXCEPT ![CallerDict] = DictPut(@, key, value)]
    /\ obj_call' = [op |-> "dict_setitem", target |-> None, key |-> key, arg |-> value,
                     ret |-> None]
    /\ UNCHANGED <<objects, issued>>

CreateObject ==
    \E addr \in Addr, a_name \in ObjNames, a_props \in {None, CallerDict} :
        Object__init__(addr, a_name, a_props)

DropObject == \E addr \in Addr : Drop(addr)

SetProperty == \E addr \in Addr, key \in Keys, value \in PropValues : set_property(addr, key, value)

GetProperty ==
    \E addr \in Addr, key \in Keys, default \in Defaults :
        get_property(addr, key, default)

CallerFillsDict == \E value \in PropValues : CallerDictSet("type", value)

NextObject ==
    \/ CreateObject /\ UNCHANGED notObject
    \/ DropObject /\ UNCHANGED notObject
    \/ SetProperty /\ UNCHANGED notObject
    \/ GetProperty /\ UNCHANGED notObject
    \/ CallerFillsDict /\ UNCHANGED notObject

SpecObject == Init /\ [][NextObject]_vars

(* ---------------------------------------------------------------------- *)
(* The Object with clone, which its callers use and the generated package  *)
(* does not define, as the specification describes it                      *)
(* ---------------------------------------------------------------------- *)

\* the name the caller gives the clone
CloneNames == {None, "TestAgentClone"}

\* clone as it would be had it handed its own dict to the new Object
\* (Object(new_name or self.name, self.properties))
clone_ShareDict(addr, new_addr, new_name) ==
    /\ addr \in DOMAIN objects
    /\ new_addr \notin DOMAIN objects
    /\ Len(issued) < MaxCreated
    /\ objects' = [b \in DOMAIN objects \cup {new_addr} |->
                     IF b = new_addr
                        THEN [name |-> IF new_name # None THEN new_name
                                                          ELSE objects[addr].name,
                              properties |-> objects[addr].properties,
                              id |-> new_addr]
                        ELSE objects[b]]
    /\ dicts' = [r \in DOMAIN dicts \cup {new_addr} |->
                   IF r = new_addr THEN EmptyDict ELSE dicts[r]]
    /\ issued' = Append(issued, new_addr)
    /\ obj_call' = [op |-> "clone", target |-> addr, key |-> None, arg |-> new_name,
                     ret |-> new_addr]

\* Object.clone(new_name): a new Object, allocated at new_addr, with a
\* fresh identity, the given name (the original's when None) and a shallow
\* copy of the original's properties
clone(addr, new_addr, new_name) ==
    /\ addr \in DOMAIN objects
    /\ new_addr \notin DOMAIN objects
    /\ Len(issued) < MaxCreated
    /\ objects' = [b \in DOMAIN objects \cup {new_addr} |->
                     IF b = new_addr
                        THEN [name |-> IF new_name # None THEN new_name
                                                          ELSE objects[addr].name,
                              properties |-> new_addr,
                              id |-> new_addr]
                        ELSE objects[b]]
    /\ dicts' = [r \in DOMAIN dicts \cup {new_addr} |->
                   IF r = new_addr THEN dicts[objects[addr].properties] ELSE dicts[r]]
    /\ issued' = Append(issued, new_addr)
    /\ obj_call' = [op |-> "clone", target |-> addr, key |-> None, arg |-> new_name,
                     ret |-> new_addr]

\* Object(name), with no properties argument
CreateNamedObject == \E addr \in Addr, a_name \in ObjNames : Object__init__(addr, a_name, None)

Clone == \E addr \in Addr, new_addr \in Addr, new_name \in CloneNames :
             clone(addr, new_addr, new_name)

NextClone ==
    \/ CreateNamedObject /\ UNCHANGED notObject
    \/ Clone /\ UNCHANGED notObject
    \/ SetProperty /\ UNCHANGED notObject
    \/ GetProperty /\ UNCHANGED notObject

SpecClone == Init /\ [][NextClone]_vars

(* ---------------------------------------------------------------------- *)
(* AthenaClient                                                            *)
(* ---------------------------------------------------------------------- *)

\* execute_query: start_query_execution, then wait_for_query(query_id)
execute_query ==
    /\ athena.pc = "idle"
    /\ athena' = [athena EXCEPT !.pc = "poll", !.execution = "QUEUED"]

\* the service moves the query execution on: a queued query starts running
\* or ends, a running one ends; an ended one stays as it is
QueryAdvances ==
    /\ athena.execution \in RunningStates
    /\ \E next \in (RunningStates \cup TerminalStates) \ {"QUEUED", athena.execution} :
          athena' = [athena EXCEPT !.execution = next]

\* the poll as it would be had the loop not stopped on CANCELLED
\* (`if status in ["SUCCEEDED", "FAILED"]`)
wait_for_query_poll_MissCancelled ==
    /\ athena.pc = "poll"
    /\ athena' = [athena EXCEPT
                     !.status = athena.execution,
                     !.polled = @ \cup {athena.execution},
                     !.polls = IF @ < MaxPolls THEN @ + 1 ELSE @,
                     !.pc = IF athena.execution \in {"SUCCEEDED", "FAILED"}
                               THEN "exit" ELSE "sleep"]

\* one round of the loop of wait_for_query: get_query_execution, and the
\* test `if status in ["SUCCEEDED", "FAILED", "CANCELLED"]: break`
wait_for_query_poll ==
    /\ athena.pc = "poll"
    /\ athena' = [athena EXCEPT
                     !.status = athena.execution,
                     !.polled = @ \cup {athena.execution},
                     !.polls = IF @ < MaxPolls THEN @ + 1 ELSE @,
                     !.pc = IF athena.execution \in TerminalStates THEN "exit" ELSE "sleep"]

\* time.sleep(1), and back to the top of the loop
wait_for_query_sleep ==
    /\ athena.pc = "sleep"
    /\ athena' = [athena EXCEPT !.pc = "poll"]

\* the end of wait_for_query as it would be had it read the results
\* whatever the status
wait_for_query_exit_AlwaysRead ==
    /\ athena.pc = "exit"
    /\ athena' = [athena EXCEPT !.pc = "done", !.outcome = "returned",
                                 !.results_read = TRUE]

\* the end of wait_for_query: return get_query_results(query_id) when the
\* status is SUCCEEDED, raise otherwise
wait_for_query_exit ==
    /\ athena.pc = "exit"
    /\ IF athena.status = "SUCCEEDED"
          THEN athena' = [athena EXCEPT !.pc = "done", !.outcome = "returned",
                                        !.results_read = TRUE]
          ELSE athena' = [athena EXCEPT !.pc = "done", !.outcome = "raised"]

NextAthena ==
    \/ execute_query /\ UNCHANGED notAthena
    \/ QueryAdvances /\ UNCHANGED notAthena
    \/ wait_for_query_poll /\ UNCHANGED notAthena
    \/ wait_for_query_sleep /\ UNCHANGED notAthena
    \/ wait_for_query_exit /\ UNCHANGED notAthena

SpecAthena == Init /\ [][NextAthena]_vars

\* the polling loop is scheduled fairly: a thread that can run its next
\* statement eventually runs it
SpecAthenaFair ==
    /\ Init
    /\ [][NextAthena]_vars
    /\ WF_vars(wait_for_query_poll /\ UNCHANGED notAthena)
    /\ WF_vars(wait_for_query_sleep /\ UNCHANGED notAthena)
    /\ WF_vars(wait_for_query_exit /\ UNCHANGED notAthena)

(* ---------------------------------------------------------------------- *)
(* AIOSBuilderAgent                                                        *)
(* ---------------------------------------------------------------------- *)

\* AIOSBuilderAgent.__init__: self.agent = Object(), allocated at addr, and
\* self.status = State([...], name='status', default='idle')
AIOSBuilderAgent__init__(addr) ==
    /\ builder.pc = "none"
    /\ Object__init__(addr, None, None)
    /\ State__init__(BuilderStates, "status", "idle")
    /\ builder' = [pc |-> "created", result |-> "none"]

\* self.status.change_state(new_state): State.change_state on the status,
\* whose history one run of the agent bounds by itself. The status
\* declares every label the agent uses, so the call never raises
status_change_state(new_state) ==
    /\ InList(new_state, states)
    /\ \E ts \in Times :
          LET old_state == current_state IN
          /\ current_state' = new_state
          /\ history' = Append(history, TransitionRecord(old_state, new_state, ts))
    /\ last_call' = [op |-> "change_state", arg |-> new_state, raised |-> "none",
                     ret |-> "True"]
    /\ UNCHANGED <<constructed, states, name, init_default, arg_states, states_shared>>

\* run_full_build is called, and analyze_current_state changes the status
\* to 'analyzing'
analyze_current_state_begin ==
    /\ builder.pc = "created"
    /\ status_change_state("analyzing")
    /\ builder' = [builder EXCEPT !.pc = "analysis"]

\* the failed analysis as it would be had analyze_current_state returned
\* an analysis all the same
analyze_current_state_checks_GoOn(raises) ==
    /\ builder.pc = "analysis"
    /\ IF raises
          THEN /\ status_change_state("error")
               /\ builder' = [builder EXCEPT !.pc = "build"]
          ELSE /\ builder' = [builder EXCEPT !.pc = "build"]
               /\ UNCHANGED stateVars

\* the checks of analyze_current_state: when one raises, the status
\* becomes 'error', None is returned and run_full_build returns False;
\* otherwise the (non-empty) analysis is returned
analyze_current_state_checks(raises) ==
    /\ builder.pc = "analysis"
    /\ IF raises
          THEN /\ status_change_state("error")
               /\ builder' = [pc |-> "returned", result |-> "False"]
          ELSE /\ builder' = [builder EXCEPT !.pc = "build"]
               /\ UNCHANGED stateVars

\* build_full_aios changes the status to 'building'
build_full_aios_begin ==
    /\ builder.pc = "build"
    /\ status_change_state("building")
    /\ builder' = [builder EXCEPT !.pc = "steps"]

\* steps 1 to 3 of build_full_aios (AI-stack setup, configuration,
\* component installation): each step handles its own failures, whose
\* outcome build_full_aios ignores; an exception raised in build_full_aios
\* itself sets the status to 'error' and makes it return False
build_full_aios_steps(outcome) ==
    /\ builder.pc = "steps"
    /\ IF outcome = "raise"
          THEN /\ status_change_state("error")
               /\ builder' = [pc |-> "returned", result |-> "False"]
          ELSE /\ builder' = [builder EXCEPT !.pc = "test"]
               /\ UNCHANGED stateVars

\* step 4 of build_full_aios: the status becomes 'testing' when
\* _test_complete_system returns True, and 'error' (run_full_build
\* returning False) otherwise
build_full_aios_test(test_result) ==
    /\ builder.pc = "test"
    /\ IF test_result
          THEN /\ status_change_state("testing")
               /\ builder' = [builder EXCEPT !.pc = "workflow"]
          ELSE /\ status_change_state("error")
               /\ builder' = [pc |-> "returned", result |-> "False"]

\* create_productivity_workflow: a failure is logged and the build goes on
create_productivity_workflow(workflow_success) ==
    /\ builder.pc = "workflow"
    /\ builder' = [builder EXCEPT !.pc = "final"]
    /\ UNCHANGED stateVars

\* step 4 of run_full_build: self.status.change_state('testing')
run_full_build_testing ==
    /\ builder.pc = "final"
    /\ status_change_state("testing")
    /\ builder' = [builder EXCEPT !.pc = "final_test"]

\* the final test as it would be had run_full_build returned True
\* whatever the test said
run_full_build_final_AlwaysTrue(final_test) ==
    /\ builder.pc = "final_test"
    /\ IF final_test
          THEN /\ status_change_state("done")
               /\ builder' = [pc |-> "returned", result |-> "True"]
          ELSE /\ status_change_state("error")
               /\ builder' = [pc |-> "returned", result |-> "True"]

\* the final _test_complete_system of run_full_build: 'done' and True when
\* it passes, 'error' and False otherwise
run_full_build_final(final_test) ==
    /\ builder.pc = "final_test"
    /\ IF final_test
          THEN /\ status_change_state("done")
               /\ builder' = [pc |-> "returned", result |-> "True"]
          ELSE /\ status_change_state("error")
               /\ builder' = [pc |-> "returned", result |-> "False"]

CreateBuilder == \E addr \in Addr : AIOSBuilderAgent__init__(addr)

Analysis == \E raises \in BOOLEAN : analyze_current_state_checks(raises)

BuildSteps == \E outcome \in {"ok", "failed", "raise"} : build_full_aios_steps(outcome)

BuildTest == \E test_result \in BOOLEAN : build_full_aios_test(test_result)

Workflow == \E workflow_success \in BOOLEAN : create_productivity_workflow(workflow_success)

FinalTest == \E final_test \in BOOLEAN : run_full_build_final(final_test)

NextBuilder ==
    \/ CreateBuilder /\ UNCHANGED notBuilderInit
    \/ analyze_current_state_begin /\ UNCHANGED notBuilder
    \/ Analysis /\ UNCHANGED notBuilder
    \/ build_full_aios_begin /\ UNCHANGED notBuilder
    \/ BuildSteps /\ UNCHANGED notBuilder
    \/ BuildTest /\ UNCHANGED notBuilder
    \/ Workflow /\ UNCHANGED notBuilder
    \/ run_full_build_testing /\ UNCHANGED notBuilder
    \/ FinalTest /\ UNCHANGED notBuilder

SpecBuilder == Init /\ [][NextBuilder]_vars

(* ---------------------------------------------------------------------- *)
(* The web dashboard: one aios_state shared by every request and every     *)
(* background task                                                         *)
(* ---------------------------------------------------------------------- *)

\* the module is loaded: aios_state = State([...], name="system_status",
\* default="idle")
LoadDashboard ==
    /\ ~dashboard.up
    /\ State__init__(SystemStates, "system_status", "idle")
    /\ dashboard' = [dashboard EXCEPT !.up = TRUE]

\* POST /workflows/start: aios_state.change_state("running"), and
\* execute_workflow is added to the background tasks
start_workflow ==
    /\ dashboard.up
    /\ dashboard.started < MaxWorkflows
    /\ status_change_state("running")
    /\ dashboard' = [dashboard EXCEPT !.started = @ + 1, !.pending = @ + 1]

\* a background execute_workflow finishes its sleep:
\* aios_state.change_state("completed"), or, when the task raises,
\* aios_state.change_state("error")
execute_workflow(raises) ==
    /\ dashboard.up
    /\ dashboard.pending > 0
    /\ status_change_state(IF raises THEN "error" ELSE "completed")
    /\ dashboard' = [dashboard EXCEPT !.pending = @ - 1]

\* GET /status: status=aios_state.current_state
get_status ==
    /\ dashboard.up
    /\ dashboard' = [dashboard EXCEPT !.reported = current_state]
    /\ UNCHANGED stateVars

ExecuteWorkflow == \E raises \in BOOLEAN : execute_workflow(raises)

NextDashboard ==
    \/ LoadDashboard /\ UNCHANGED notDashboard
    \/ start_workflow /\ UNCHANGED notDashboard
    \/ ExecuteWorkflow /\ UNCHANGED notDashboard
    \/ get_status /\ UNCHANGED notDashboard

SpecDashboard == Init /\ [][NextDashboard]_vars

(* ---------------------------------------------------------------------- *)
(* Properties                                                              *)
(* ---------------------------------------------------------------------- *)

\* the labels declared in self.states, as a set
DeclaredStates == {states[i] : i \in DOMAIN states}

\* seq1 is a prefix of seq2
IsPrefix(seq1, seq2) ==
    /\ Len(seq1) <= Len(seq2)
    /\ \A i \in DOMAIN seq1 : seq1[i] = seq2[i]

\* the step is a call of change_state that returned normally
ChangeStateSucceeded == last_call'.op = "change_state" /\ last_call'.raised = "none"

\* the step is a call of change_state that raised
ChangeStateFailed == last_call'.op = "change_state" /\ last_call'.raised # "none"

\* the initial state a caller asks for: the explicit default when one is
\* given, the first declared state otherwise (states non-empty)
RequestedInitial == IF init_default # None THEN init_default ELSE states[1]

\* C1: in every state of a constructed State, current_state is a member of
\* states.
C1_CurrentInStates == constructed => current_state \in DeclaredStates

\* C2: the history is a chain (each record's to is the next record's
\* from), its last record's to is current_state, and when it is empty
\* current_state is the initial state the constructor configured.
C2_HistoryChain ==
    constructed =>
        /\ \A i \in 1..(Len(history) - 1) : history[i].to = history[i + 1].from
        /\ history # <<>> => history[Len(history)].to = current_state
        /\ history = <<>> => current_state = InitialState(states, init_default)

\* C3: a change_state call that raises leaves current_state and history as
\* they were before the call.
C3_FailedTransitionAtomic ==
    [][ChangeStateFailed => (current_state' = current_state /\ history' = history)]_vars

\* C3 witness: a change_state call has raised on a State that had already
\* moved away from its initial state
C3_Witness ==
    /\ last_call.op = "change_state"
    /\ last_call.raised = "ValueError"
    /\ Len(history) = 1
    /\ current_state # InitialState(states, init_default)

\* C4: change_state with a label that is not a member of states raises
\* ValueError instead of returning.
C4_UndeclaredRaises ==
    (last_call.op = "change_state" /\ last_call.arg \notin DeclaredStates)
        => last_call.raised = "ValueError"

\* C4 witness: change_state("nonexistent") has raised on a State that
\* declares two states
C4_Witness ==
    /\ last_call.op = "change_state"
    /\ last_call.arg = "nonexistent"
    /\ last_call.raised = "ValueError"
    /\ states = <<"idle", "working">>

\* C5: after a successful change_state(to), current_state is to, and the
\* record the call appended has from = the current_state held before the
\* call and to = the argument.
C5_SuccessfulTransition ==
    [][ChangeStateSucceeded =>
          /\ current_state' = last_call'.arg
          /\ Len(history') > 0
          /\ history'[Len(history')].from = current_state
          /\ history'[Len(history')].to = last_call'.arg]_vars

\* C5 witness: idle -> working -> idle has been recorded
C5_Witness ==
    /\ Len(history) = 2
    /\ history[1].from = "idle" /\ history[1].to = "working"
    /\ history[2].from = "working" /\ history[2].to = "idle"
    /\ current_state = "idle"
    /\ last_call.op = "change_state"

\* C6: the length of history grows by exactly one on each successful
\* change_state call and is unchanged by each failed one.
C6_HistoryLength ==
    [][/\ ChangeStateSucceeded => Len(history') = Len(history) + 1
       /\ ChangeStateFailed => Len(history') = Len(history)]_vars

\* C6 witness: a successful change_state to the state that was already
\* current has been recorded, and a failed call followed it
C6_Witness ==
    /\ Len(history) = 2
    /\ history[2].from = history[2].to
    /\ last_call.op = "change_state"
    /\ last_call.raised = "ValueError"

\* C7: every call other than reset leaves the history it found as a prefix
\* of the history it leaves.
C7_AppendOnly ==
    [][last_call'.op # "reset" => IsPrefix(history, history')]_vars

\* C7 witness: get_history has been called on a full history and the
\* history is still what it returned
C7_Witness ==
    /\ last_call.op = "get_history"
    /\ Len(history) = MaxHistory
    /\ last_call.ret = history

\* C8: reset returns normally, sets current_state to the initial state
\* asked for at construction (the explicit default if given, the first
\* declared state otherwise) and leaves history empty.
C8_ResetRestoresInitial ==
    (last_call.op = "reset" /\ Len(states) > 0) =>
        /\ last_call.raised = "none"
        /\ current_state = RequestedInitial
        /\ history = <<>>

\* C9: right after construction with a non-empty states list,
\* current_state is the explicit default whenever one is supplied, the
\* first declared state when none is, and history is empty.
C9_ConstructedInitial ==
    (last_call.op = "__init__" /\ Len(states) > 0) =>
        /\ current_state = RequestedInitial
        /\ history = <<>>

\* C10: constructing with a default that is not a member of states raises
\* a configuration error, and no State whose default lies outside states
\* is ever constructed.
C10_DefaultValidated ==
    /\ (last_call.op = "__init__" /\ init_default # None /\ init_default \notin DeclaredStates)
          => last_call.raised = "ConfigurationError"
    /\ (constructed /\ init_default # None) => init_default \in DeclaredStates

\* C11: constructing with an empty states list or with a repeated label
\* raises a configuration error, and every constructed State has a
\* non-empty states list of pairwise distinct labels.
C11_StatesValidated ==
    LET distinct == \A i, j \in DOMAIN states : i # j => states[i] # states[j] IN
    /\ (last_call.op = "__init__" /\ (Len(states) = 0 \/ ~distinct))
          => last_call.raised = "ConfigurationError"
    /\ constructed => (Len(states) > 0 /\ distinct)

\* C13: with no transition graph, a change_state to a declared state never
\* raises, whatever state was current: the call returns and the target is
\* the current state.
C13_NeverLocks ==
    (last_call.op = "change_state" /\ last_call.arg \in DeclaredStates)
        => (last_call.raised = "none" /\ current_state = last_call.arg)

\* C13 witness: the State has reached its last declared state and then
\* left it for another declared state
C13_Witness ==
    /\ Len(states) = 2
    /\ Len(history) = 2
    /\ history[1].to = states[2]
    /\ history[2].from = states[2]
    /\ history[2].to = states[1]
    /\ states[1] # states[2]
    /\ last_call.op = "change_state"
    /\ last_call.raised = "none"

C16_SnapshotIndependent == [][CallerMutatesHeld => history' = history]_vars

\* C18: once constructed, states keeps the labels it was declared with, in
\* the same order, through every call on the State and every mutation of
\* the list object the caller passed to the constructor; at construction it
\* takes that list's labels.
C18_StatesImmutable ==
    [][/\ constructed => states' = states
       /\ (~constructed /\ constructed') => states' = arg_states']_vars

\* C18 witness: the caller has changed the list it passed to the
\* constructor, the State has since moved and been reset, and states still
\* holds the two declared labels
C18_Witness ==
    /\ constructed
    /\ states = <<"idle", "working">>
    /\ arg_states = <<"idle", "working", "nonexistent">>
    /\ last_call.op = "reset"

\* C12: under a declared transition graph, a change_state that returns has
\* committed a pair of the graph; a change_state to a declared state whose
\* pair (current, to) is outside the graph raises IllegalTransitionError and
\* leaves current_state and history alone; one whose pair is in the graph
\* returns.
C12_GraphEnforced ==
    [][(last_call'.op = "change_state" /\ allowed_transitions.declared) =>
          LET pair == <<current_state, last_call'.arg>> IN
          /\ last_call'.raised = "none" => pair \in allowed_transitions.pairs
          /\ (last_call'.arg \in DeclaredStates /\ pair \notin allowed_transitions.pairs) =>
                /\ last_call'.raised = "IllegalTransitionError"
                /\ current_state' = current_state
                /\ history' = history
          /\ (last_call'.arg \in DeclaredStates /\ pair \in allowed_transitions.pairs) =>
                last_call'.raised = "none"]_vars

\* C12 witness: under the graph {(idle, working)} the State has moved from
\* idle to working, and the move back to idle has been refused
C12_Witness ==
    /\ allowed_transitions = [declared |-> TRUE, pairs |-> {<<"idle", "working">>}]
    /\ Len(history) = 1
    /\ history[1].from = "idle" /\ history[1].to = "working"
    /\ current_state = "working"
    /\ last_call.op = "change_state"
    /\ last_call.arg = "idle"
    /\ last_call.raised = "IllegalTransitionError"

\* the number of history records from f to t
CountOf(f, t) == Cardinality({i \in DOMAIN history : history[i].from = f /\ history[i].to = t})

\* the labels history records can hold
RecordLabels == ArgLabels \cup {None}

RECURSIVE SumOver(_, _)
\* the sum of the counts st reports for the pairs in ps
SumOver(st, ps) ==
    IF ps = {} THEN 0
    ELSE LET p == CHOOSE q \in ps : TRUE IN st[p] + SumOver(st, ps \ {p})

\* C15: what get_transition_stats returns is derived from the history: each
\* pair it reports has the count of the history records with that from and
\* to, every pair that occurred is reported, none is reported with a count
\* of zero, the counts sum to the length of the history; and after reset no
\* pair has a count.
C15_StatsFromHistory ==
    /\ last_call.op = "get_transition_stats" =>
          LET st == last_call.ret IN
          /\ \A f, t \in RecordLabels :
                IF CountOf(f, t) > 0
                   THEN <<f, t>> \in DOMAIN st /\ st[<<f, t>>] = CountOf(f, t)
                   ELSE <<f, t>> \notin DOMAIN st
          /\ SumOver(st, DOMAIN st) = Len(history)
    /\ last_call.op = "reset" => DOMAIN TransitionStats(history) = {}

\* C15 witness: get_transition_stats has reported a pair that occurred twice
C15_Witness ==
    /\ last_call.op = "get_transition_stats"
    /\ Len(history) = 2
    /\ \E p \in DOMAIN last_call.ret : last_call.ret[p] = 2

\* the methods and attribute reads that only read the State
ReadOps == {"get_history", "get_transition_stats", "get_current_state_info", "current_state"}

\* C17: get_history, get_transition_stats, get_current_state_info and
\* reading current_state leave current_state, history and states as they
\* were.
C17_ReadsDoNotMutate ==
    [][last_call'.op \in ReadOps =>
          (current_state' = current_state /\ history' = history /\ states' = states)]_vars

\* C17 witness: get_history has been called on a State with a declared graph
\* and one record, and the history is what it returned
C17_Witness ==
    /\ last_call.op = "get_history"
    /\ Len(history) = 1
    /\ last_call.ret = history
    /\ current_state = history[1].to
    /\ allowed_transitions.declared

\* C19: no two Objects created in the process, those created after an
\* earlier one was dropped included, are ever given the same id.
C19_IdsNeverReused == \A i, j \in DOMAIN issued : i # j => issued[i] # issued[j]

\* C20: no set_property or get_property call changes the id or the name of
\* any Object.
C20_IdentityImmutable ==
    [][obj_call'.op \in {"set_property", "get_property"} =>
          \A a \in DOMAIN objects :
              /\ a \in DOMAIN objects'
              /\ objects'[a].id = objects[a].id
              /\ objects'[a].name = objects[a].name]_vars

\* C20 witness: set_property("id", ...) has been called on an Object, the
\* entry is in its properties, and its id is still the one it was given
C20_Witness ==
    /\ obj_call.op = "set_property"
    /\ obj_call.key = "id"
    /\ obj_call.target \in DOMAIN objects
    /\ "id" \in DOMAIN dicts[objects[obj_call.target].properties]
    /\ objects[obj_call.target].id = obj_call.target

\* the attribute mapping of the Object at a, before and after a step
DictOf(a) == dicts[objects[a].properties]
DictOfNext(a) == dicts'[objects'[a].properties]

\* C21: set_property(key, value) never fails and inserts or overwrites
\* exactly one entry: afterwards get_property(key) returns value, and every
\* other key keeps the value it had (no key is added or removed besides key)
C21_SetPropertyOneEntry ==
    [][obj_call'.op = "set_property" =>
          LET a == obj_call'.target
              k == obj_call'.key
          IN  /\ a \in DOMAIN objects /\ a \in DOMAIN objects'
              /\ DictGet(DictOfNext(a), k, None) = obj_call'.arg
              /\ DOMAIN DictOfNext(a) = DOMAIN DictOf(a) \cup {k}
              /\ \A k2 \in DOMAIN DictOf(a) \ {k} : DictOfNext(a)[k2] = DictOf(a)[k2]]_vars

\* a set_property has just stored its value in a mapping that holds another
\* key too
C21_Witness ==
    /\ obj_call.op = "set_property"
    /\ obj_call.target \in DOMAIN objects
    /\ Cardinality(DOMAIN DictOf(obj_call.target)) = 2
    /\ DictOf(obj_call.target)[obj_call.key] = obj_call.arg

\* C22: get_property(key, default) on a key the mapping does not hold
\* returns the default (None when none is given), and leaves the mapping
\* and the Object as they were: the key is not added
C22_MissingKeyDefault ==
    [][(/\ obj_call'.op = "get_property"
        /\ obj_call'.target \in DOMAIN objects
        /\ obj_call'.key \notin DOMAIN DictOf(obj_call'.target))
          => /\ obj_call'.ret = obj_call'.arg
             /\ dicts' = dicts
             /\ objects' = objects]_vars

\* a get_property with a default has just missed in a non-empty mapping
C22_Witness ==
    /\ obj_call.op = "get_property"
    /\ obj_call.target \in DOMAIN objects
    /\ DictOf(obj_call.target) # EmptyDict
    /\ obj_call.key \notin DOMAIN DictOf(obj_call.target)
    /\ obj_call.arg = "analysis"
    /\ obj_call.ret = "analysis"

\* C30: distinct Objects have independent attribute mappings however they
\* were constructed: a set_property on one Object changes neither the
\* mapping of another Object nor the dict the caller passed as properties
C30_MappingsIndependent ==
    [][obj_call'.op = "set_property" =>
          /\ \A b \in DOMAIN objects \ {obj_call'.target} : DictOfNext(b) = DictOf(b)
          /\ dicts'[CallerDict] = dicts[CallerDict]]_vars

\* C23: clone returns an Object whose identity differs from the original's
\* and whose attribute mapping is an independent copy: it starts with the
\* original's entries in a dict object of its own, and a set_property on
\* either of the two never changes the mapping of the other
C23_CloneIndependent ==
    [][/\ obj_call'.op = "clone" /\ obj_call'.ret \notin DOMAIN objects =>
            LET o == obj_call'.target
                c == obj_call'.ret
            IN  /\ objects'[c].id # objects'[o].id
                /\ objects'[c].properties # objects'[o].properties
                /\ DictOfNext(c) = DictOf(o)
                /\ DictOfNext(o) = DictOf(o)
       /\ obj_call'.op = "set_property" =>
            \A b \in DOMAIN objects \ {obj_call'.target} : DictOfNext(b) = DictOf(b)]_vars

\* a set_property on a clone has just given a key a value other than the
\* one the original holds under it
C23_Witness ==
    /\ obj_call.op = "set_property"
    /\ obj_call.target \in DOMAIN objects
    /\ objects[obj_call.target].name = "TestAgentClone"
    /\ DictOf(obj_call.target)[obj_call.key] = obj_call.arg
    /\ \E o \in DOMAIN objects :
          /\ objects[o].name = "TestAgent"
          /\ obj_call.key \in DOMAIN DictOf(o)
          /\ DictOf(o)[obj_call.key] # obj_call.arg

\* the history is a consistent append log matching current_state
HistoryConsistent ==
    /\ \A i \in 1..(Len(history) - 1) : history[i].to = history[i + 1].from
    /\ history # <<>> => history[Len(history)].to = current_state

\* no thread is inside a change_state call
Quiescent == \A t \in Threads : threads[t].pc = "idle"

\* C24: when the threads' change_state calls on the one State are
\* serialized behind one lock, the history is a chain whose last record's
\* to is current_state whenever no call is in progress; without the lock
\* a lost update breaks this (the state C24_Witness describes is reached)
C24_SerializedConsistent == (constructed /\ serialized /\ Quiescent) => HistoryConsistent

\* two unserialized calls have returned and left a history that does not
\* chain or whose last record's to differs from current_state
C24_Witness ==
    /\ constructed
    /\ ~serialized
    /\ Quiescent
    /\ Len(history) = 2
    /\ ~HistoryConsistent

\* C25: wait_for_query returns results only when the last polled status is
\* SUCCEEDED; when it is FAILED or CANCELLED it raises and
\* get_query_results is never called; and it neither returns nor raises
\* while every status polled so far is non-terminal
C25_ResultsOnlyOnSuccess ==
    /\ athena.outcome = "returned" => athena.status = "SUCCEEDED" /\ athena.results_read
    /\ athena.status \in {"FAILED", "CANCELLED"} =>
          athena.outcome # "returned" /\ ~athena.results_read
    /\ athena.pc = "done" /\ athena.status \in {"FAILED", "CANCELLED"} =>
          athena.outcome = "raised"
    /\ athena.polled \cap TerminalStates = {} =>
          athena.outcome = "none" /\ athena.pc # "done" /\ ~athena.results_read

\* wait_for_query has raised on a query that failed or was cancelled after
\* it was polled while queued or running
C25_Witness ==
    /\ athena.pc = "done"
    /\ athena.outcome = "raised"
    /\ athena.status \in {"FAILED", "CANCELLED"}
    /\ athena.polled \cap RunningStates # {}

\* C26: under fair scheduling of the polling loop, if the query execution
\* eventually reaches SUCCEEDED, FAILED or CANCELLED and stays there,
\* wait_for_query eventually returns or raises; and if it never reaches
\* one of them, wait_for_query never returns or raises
C26_TerminatesIffTerminal ==
    /\ <>[](athena.execution \in TerminalStates) => <>(athena.outcome # "none")
    /\ [](athena.execution \notin TerminalStates) => [](athena.outcome = "none")

\* wait_for_query has returned after several rounds of the loop
C26_Witness ==
    /\ athena.outcome = "returned"
    /\ athena.polls >= 2
    /\ athena.polled \cap RunningStates # {}

\* C27: whatever the outcomes of the external steps, run_full_build returns
\* True exactly when the status ends in 'done', and when it returns False
\* the status ends in 'error'
C27_ResultMatchesStatus ==
    builder.pc = "returned" =>
        /\ builder.result = "True" <=> current_state = "done"
        /\ builder.result = "False" => current_state = "error"
        /\ builder.result \in {"True", "False"}

\* run_full_build has returned False because the final test failed after
\* the build had passed its own test
C27_Witness ==
    /\ builder.pc = "returned"
    /\ builder.result = "False"
    /\ current_state = "error"
    /\ Len(history) = 5
    /\ history[4].to = "testing"

\* the labels the status has entered so far
Entered == {history[i].to : i \in DOMAIN history}

\* the position of a status label in the order of a build
Rank(label) ==
    CASE label = "idle" -> 0
      [] label = "analyzing" -> 1
      [] label = "building" -> 2
      [] label = "testing" -> 3
      [] label = "done" -> 4
      [] OTHER -> 5

\* C28: within a run of run_full_build from 'idle' the status advances
\* only in the order analyzing, building, testing, done: 'done' is entered
\* only directly from 'testing', 'testing' only after 'building' has been
\* entered, and after 'done' or 'error' no further transition is made
C28_StatusOrder ==
    [][builder.pc # "none" =>
          /\ current_state \in {"done", "error"} =>
                current_state' = current_state /\ history' = history
          /\ history' # history =>
                /\ Rank(current_state') >= Rank(current_state)
                /\ current_state' = "done" => current_state = "testing"
                /\ current_state' = "testing" => "building" \in Entered
                /\ current_state' = "building" => current_state = "analyzing"]_vars

\* a run has ended in 'done', entered from 'testing'
C28_Witness ==
    /\ builder.pc = "returned"
    /\ current_state = "done"
    /\ history[Len(history)].from = "testing"
    /\ "building" \in Entered

====
